---------------------------- MODULE Spec2Model ----------------------------
(***************************************************************************)
(* isnapshot (src/src/isnapshot.c): incremental snapshots.  A run creates  *)
(* backupRoot/<date>/ and walks the source arguments; unchanged regular    *)
(* files become symlinks to the previous snapshot, everything else is      *)
(* materialised afresh.                                                    *)
(*                                                                         *)
(* C strings are sequences of character codes (ASCII).  A path string is   *)
(* a record [nul, abs, segs]: nul is the NULL pointer, abs says whether    *)
(* the string starts with '/', segs are its components (each a sequence of *)
(* character codes).  The process runs with "/" as working directory, so   *)
(* the string "B" and the string "/B" name the same directory to a system  *)
(* call, and differ when stored as the target of a symlink.                *)
(***************************************************************************)
EXTENDS Integers, Sequences, FiniteSets, TLC

VARIABLES
  \* ---- locate_previous, step by step (SpecLocate)
  lp_children,   \* names in the backup root directory
  lp_pending,    \* names readdir has not returned yet
  lp_latest,     \* time_t latest
  lp_result,     \* char* result
  lp_pc,         \* "loop" | "done"
  \* ---- copy_time, step by step (SpecMeta)
  ct_in,         \* the struct stat the caller passed, as it was at the call
  ct_s,          \* struct stat* s  (mode, uid, mtime)
  ct_fail,       \* which of the three system calls fail
  ct_file,       \* the file's metadata on disk
  ct_calls,      \* the system calls made so far
  ct_result,     \* bool result
  ct_pc,         \* "utime" | "chown" | "chmod" | "ret"
  \* ---- the command line and the process (Spec)
  root,            \* argv[argc-1]: the backup root, as typed
  sources,         \* argv[optind .. argc-2]
  exclude_pattern, \* -e PATTERN, or NoPattern
  force_copy,      \* -f
  proc_umask,      \* the process's file mode creation mask
  \* ---- the world
  fs,              \* the filesystem
  day,             \* the date: the run's snapshot is named 01-<day>-26-00-00-00
  \* ---- main and process_file
  pc,              \* "idle" | "main" | "call" | "readdir" | "done"
  x,               \* main's index into sources
  result,          \* main's exit status
  dest,            \* the new snapshot root
  previous,        \* locate_previous's answer
  call,            \* the source path process_file has just been called on
  stack,           \* the directories process_file is reading, innermost last
  \* ---- bookkeeping
  runs, edits,     \* how many runs and source edits so far
  faulted,         \* a system call has been made to fail
  ops,             \* what this run's process_file did, by source path
  edited,          \* the source files rewritten since the last run began
  changed,         \* the source files rewritten between the run before and this one
  allOk,           \* no run so far has failed
  failed,          \* some process_file call of this run has returned false
  afterFail,       \* process_file calls entered since
  wroteAfterFail   \* the filesystem has changed since

lpvars == <<lp_children, lp_pending, lp_latest, lp_result, lp_pc>>
cfgvars == <<root, sources, exclude_pattern, proc_umask>>
runvars == <<force_copy, fs, day, pc, x, result, dest, previous, call, stack>>
bookvars == <<runs, edits, faulted, ops, edited, changed, allOk, failed, afterFail, wroteAfterFail>>
walkvars == <<cfgvars, runvars, bookvars>>
ctvars == <<ct_in, ct_s, ct_fail, ct_file, ct_calls, ct_result, ct_pc>>

-----------------------------------------------------------------------------
(* Bounds *)

\* runs against the same backup root
MaxRuns == 3

\* edits of source files between runs
MaxEdits == 1

\* how many entries the backup root holds when locate_previous is explored
MaxChildren == 3

-----------------------------------------------------------------------------
(* Characters and strings *)

IsDigit(c) == c >= 48 /\ c <= 57

\* two decimal digits, as strftime prints %m %d %y %H %M %S
TwoDigits(n) == <<48 + (n \div 10), 48 + (n % 10)>>

\* static const char* date_format = "%m-%d-%y-%H-%M-%S"
date_format == <<37,109, 45, 37,100, 45, 37,121, 45, 37,72, 45, 37,77, 45, 37,83>>

\* strftime(date, 32, "%m-%d-%y-%H-%M-%S", tm): the name of a snapshot
Stamp(mo, d, y, h, mi, s) ==
  TwoDigits(mo) \o <<45>> \o TwoDigits(d) \o <<45>> \o TwoDigits(y) \o <<45>> \o
  TwoDigits(h) \o <<45>> \o TwoDigits(mi) \o <<45>> \o TwoDigits(s)

NULL == [nul |-> TRUE, abs |-> FALSE, segs |-> <<>>]

PathStr(isAbs, segs) == [nul |-> FALSE, abs |-> isAbs, segs |-> segs]

\* join_path: path, a '/' unless path ends in one, filename without its
\* leading '/'s.  On components: the components of both, path's anchoring.
join_path(path, filename) ==
  IF path.nul \/ filename.nul THEN NULL
  ELSE PathStr(path.abs, path.segs \o filename.segs)

\* name is "." or ".."
ignore_dir(name) ==
  IF Len(name) = 0 \/ name[1] /= 46 THEN FALSE
  ELSE IF Len(name) = 1 THEN TRUE
  ELSE name[2] = 46 /\ Len(name) = 2

-----------------------------------------------------------------------------
(* strptime and mktime, as locate_previous uses them *)

\* an unparsed struct tm; a field no directive sets keeps this marker
TmBlank == [mon |-> -1, mday |-> -1, year |-> -1, hour |-> -1, min |-> -1, sec |-> -1]

Failed == [ok |-> FALSE, pos |-> 0, val |-> 0]

\* strptime's get_number(from, to, 2): skip blanks, need a digit, take a
\* second digit only while ten times the value can still fit in to.
GetNumber(str, pos, from, to) ==
  LET SkipBlank[p \in 1..(Len(str) + 1)] ==
        IF p <= Len(str) /\ str[p] = 32 THEN SkipBlank[p + 1] ELSE p
      p0 == SkipBlank[pos]
  IN  IF p0 > Len(str) \/ ~IsDigit(str[p0]) THEN Failed
      ELSE LET v1 == str[p0] - 48
               two == /\ v1 * 10 <= to
                      /\ p0 + 1 <= Len(str)
                      /\ IsDigit(str[p0 + 1])
               v == IF two THEN v1 * 10 + (str[p0 + 1] - 48) ELSE v1
               p1 == IF two THEN p0 + 2 ELSE p0 + 1
           IN  IF v < from \/ v > to THEN Failed
               ELSE [ok |-> TRUE, pos |-> p1, val |-> v]

\* one conversion specification of the format: %m %d %y %H %M %S
Directive(c, str, pos, tm) ==
  LET num(from, to) == GetNumber(str, pos, from, to)
      put(r, t) == [ok |-> r.ok, pos |-> r.pos, tm |-> t]
  IN  CASE c = 109 -> LET r == num(1, 12)  IN put(r, [tm EXCEPT !.mon = r.val - 1])
        [] c = 100 -> LET r == num(1, 31)  IN put(r, [tm EXCEPT !.mday = r.val])
        [] c = 121 -> LET r == num(0, 99)  IN
                        put(r, [tm EXCEPT !.year = IF r.val >= 69 THEN r.val ELSE r.val + 100])
        [] c = 72  -> LET r == num(0, 23)  IN put(r, [tm EXCEPT !.hour = r.val])
        [] c = 77  -> LET r == num(0, 59)  IN put(r, [tm EXCEPT !.min = r.val])
        [] c = 83  -> LET r == num(0, 61)  IN put(r, [tm EXCEPT !.sec = r.val])
        [] OTHER   -> [ok |-> FALSE, pos |-> pos, tm |-> tm]

\* strptime(str, fmt, &t): res is NULL (ok = FALSE) or the position of the
\* first character of str the format did not consume.
RECURSIVE StrptimeFrom(_, _, _, _, _)
StrptimeFrom(str, fmt, i, pos, tm) ==
  IF i > Len(fmt) THEN [ok |-> TRUE, pos |-> pos, tm |-> tm]
  ELSE IF fmt[i] = 37 /\ i < Len(fmt)
       THEN LET r == Directive(fmt[i + 1], str, pos, tm)
            IN  IF r.ok THEN StrptimeFrom(str, fmt, i + 2, r.pos, r.tm)
                ELSE [ok |-> FALSE, pos |-> pos, tm |-> tm]
       ELSE IF pos <= Len(str) /\ str[pos] = fmt[i]
            THEN StrptimeFrom(str, fmt, i + 1, pos + 1, tm)
            ELSE [ok |-> FALSE, pos |-> pos, tm |-> tm]

strptime(str, fmt) == StrptimeFrom(str, fmt, 1, 1, TmBlank)

\* days before the first of month mon (0..11) in a year that is not leap
MonthStart == <<0, 31, 59, 90, 120, 151, 181, 212, 243, 273, 304, 334>>

\* mktime for a zone whose standard time is UTC.  tm.year counts from 1900
\* (69..168 here, so every fourth year is leap); out-of-range days carry
\* over linearly.  isdst > 0 on a date outside summer time names the wall
\* clock one hour ahead, hence an instant one hour earlier.
mktime(tm, isdst) ==
  LET y == tm.year + 1900
      leapsBefore == (y - 1969) \div 4
      isLeap == y % 4 = 0
      days == 365 * (y - 1970) + leapsBefore + MonthStart[tm.mon + 1]
              + (IF isLeap /\ tm.mon >= 2 THEN 1 ELSE 0) + (tm.mday - 1)
      t == days * 86400 + tm.hour * 3600 + tm.min * 60 + tm.sec
  IN  IF isdst THEN t - 3600 ELSE t

-----------------------------------------------------------------------------
(* locate_previous *)

\* res && !*res: the whole name was consumed by the format
ParsesFully(name) ==
  LET r == strptime(name, date_format) IN r.ok /\ r.pos = Len(name) + 1

\* one iteration of the readdir loop on entry name; isdst is the value the
\* uninitialised t.tm_isdst happens to hold (TRUE: positive)
LocateVisit(st, broot, name, isdst) ==
  LET r == strptime(name, date_format)
  IN  IF ignore_dir(name) THEN st
      ELSE IF ~r.ok \/ r.pos /= Len(name) + 1 THEN st
      ELSE LET current == mktime(r.tm, isdst)
           IN  IF current > st.latest
               THEN [latest |-> current,
                     result |-> join_path(broot, PathStr(FALSE, <<name>>))]
               ELSE st

\* the backup root of the locate_previous exploration: the string "/B"
LpRoot == PathStr(TRUE, <<<<66>>>>)

\* names a backup root may hold
NamePool ==
  { Stamp(1, 1, 26, 0, 0, 0),            \* 01-01-26-00-00-00
    Stamp(1, 1, 26, 0, 30, 0),           \* half an hour later
    Stamp(1, 2, 26, 0, 0, 0),            \* a day later
    <<49,45,49,45,50,54,45,48,45,48,45,48>>,   \* 1-1-26-0-0-0
    Stamp(1, 1, 70, 0, 0, 0),            \* the epoch
    Stamp(12, 31, 69, 23, 59, 59),       \* one second before it
    Stamp(1, 3, 26, 0, 0, 0) \o <<120>>, \* 01-03-26-00-00-00x
    <<110,111,116,101,115>>,             \* notes
    <<46,46>> }                          \* ..

\* while ((entry = readdir(dir)) != NULL) { ... }
LocateReaddir ==
  /\ lp_pc = "loop"
  /\ \E name \in lp_pending, isdst \in BOOLEAN :
       LET st == LocateVisit([latest |-> lp_latest, result |-> lp_result],
                             LpRoot, name, isdst)
       IN  /\ lp_latest' = st.latest
           /\ lp_result' = st.result
           /\ lp_pending' = lp_pending \ {name}
  /\ UNCHANGED <<lp_children, lp_pc>>

\* closedir(dir); return result;
LocateReturn ==
  /\ lp_pc = "loop"
  /\ lp_pending = {}
  /\ lp_pc' = "done"
  /\ UNCHANGED <<lp_children, lp_pending, lp_latest, lp_result>>

-----------------------------------------------------------------------------
(* Mode bits *)

RECURSIVE BitAnd(_, _)
BitAnd(a, b) ==
  IF a = 0 \/ b = 0 THEN 0
  ELSE (a % 2) * (b % 2) + 2 * BitAnd(a \div 2, b \div 2)

\* a | b
BitOr(a, b) == a + b - BitAnd(a, b)

\* a & ~b
BitClear(a, b) == a - BitAnd(a, b)

S_ISUID == 2048
S_ISGID == 1024
S_IRWXU == 448

-----------------------------------------------------------------------------
(* copy_time: utime, chown, chmod on file from struct stat s *)

\* The state of one sc: s is the caller's struct stat (copy_time writes to
\* it), file the metadata on disk, fail the system calls that fail.
CtStart(file, s, fail) ==
  [s |-> s, file |-> file, fail |-> fail, result |-> TRUE, calls |-> <<>>, pc |-> "utime"]

\* if (utime(file, &times) < 0) result = false;
CtUtime(m) ==
  LET sc == [name |-> "utime", arg |-> m.s.mtime, ok |-> ~m.fail.utime]
  IN  [m EXCEPT !.calls = Append(@, sc),
                !.file = IF m.fail.utime THEN @ ELSE [@ EXCEPT !.mtime = m.s.mtime],
                !.result = IF m.fail.utime THEN FALSE ELSE @,
                !.pc = "chown"]

\* a chown step that leaves setuid and setgid in place when chown fails
CtChown_mut_nostrip(m) ==
  LET sc == [name |-> "chown", arg |-> m.s.uid, ok |-> ~m.fail.chown]
  IN  [m EXCEPT !.calls = Append(@, sc),
                !.file = IF m.fail.chown THEN @ ELSE [@ EXCEPT !.uid = m.s.uid],
                !.result = IF m.fail.chown THEN FALSE ELSE @,
                !.pc = "chmod"]

\* if (chown(file, uid, gid) < 0) { s->st_mode &= ~(S_ISUID | S_ISGID); result = false; }
CtChown(m) ==
  LET sc == [name |-> "chown", arg |-> m.s.uid, ok |-> ~m.fail.chown]
  IN  [m EXCEPT !.calls = Append(@, sc),
                !.file = IF m.fail.chown THEN @ ELSE [@ EXCEPT !.uid = m.s.uid],
                !.s = IF m.fail.chown
                      THEN [@ EXCEPT !.mode = BitClear(@, BitOr(S_ISUID, S_ISGID))]
                      ELSE @,
                !.result = IF m.fail.chown THEN FALSE ELSE @,
                !.pc = "chmod"]

\* if (chmod(file, s->st_mode) < 0) result = false;  return result;
CtChmod(m) ==
  LET sc == [name |-> "chmod", arg |-> m.s.mode, ok |-> ~m.fail.chmod]
  IN  [m EXCEPT !.calls = Append(@, sc),
                !.file = IF m.fail.chmod THEN @ ELSE [@ EXCEPT !.mode = m.s.mode],
                !.result = IF m.fail.chmod THEN FALSE ELSE @,
                !.pc = "ret"]

\* the whole call
copy_time(file, s, fail) == CtChmod(CtChown(CtUtime(CtStart(file, s, fail))))

NoFail == [utime |-> FALSE, chown |-> FALSE, chmod |-> FALSE]

FailSets == [utime : BOOLEAN, chown : BOOLEAN, chmod : BOOLEAN]

\* permission bits explored: 0644, 0555, 04755, 02750, 06711
MetaModes == {420, 365, 2541, 1512, 3529}

CtState == [s |-> ct_s, file |-> ct_file, fail |-> ct_fail, result |-> ct_result,
            calls |-> ct_calls, pc |-> ct_pc]

CtSet(m) ==
  /\ ct_s' = m.s
  /\ ct_file' = m.file
  /\ ct_result' = m.result
  /\ ct_calls' = m.calls
  /\ ct_pc' = m.pc
  /\ UNCHANGED <<ct_in, ct_fail>>

MetaUtime == ct_pc = "utime" /\ CtSet(CtUtime(CtState))

MetaChown == ct_pc = "chown" /\ CtSet(CtChown(CtState))

MetaChmod == ct_pc = "chmod" /\ CtSet(CtChmod(CtState))

-----------------------------------------------------------------------------
(* fnmatch(pattern, string, 0): '*' and '?' match any characters, '/' too *)

RECURSIVE FnmatchFrom(_, _, _, _)
FnmatchFrom(pat, i, str, j) ==
  IF i > Len(pat) THEN j > Len(str)
  ELSE IF pat[i] = 42
       THEN \E k \in j..(Len(str) + 1) : FnmatchFrom(pat, i + 1, str, k)
       ELSE /\ j <= Len(str)
            /\ (pat[i] = 63 \/ pat[i] = str[j])
            /\ FnmatchFrom(pat, i + 1, str, j + 1)

\* TRUE when fnmatch returns 0
fnmatch(pat, str) == FnmatchFrom(pat, 1, str, 1)

\* the characters of a path string: components separated by '/'
RECURSIVE JoinSegs(_)
JoinSegs(segs) ==
  IF segs = <<>> THEN <<>>
  ELSE IF Len(segs) = 1 THEN segs[1]
  ELSE segs[1] \o <<47>> \o JoinSegs(Tail(segs))

PathChars(s) == (IF s.abs THEN <<47>> ELSE <<>>) \o JoinSegs(s.segs)

-----------------------------------------------------------------------------
(* The filesystem: a function from paths (sequences of names, from "/") to  *)
(* entries.  via names the call that made the entry.                        *)

Entry(kind, mode, uid, mtime, data, target, via) ==
  [kind |-> kind, mode |-> mode, uid |-> uid, mtime |-> mtime, data |-> data,
   target |-> target, via |-> via]

Parent(p) == SubSeq(p, 1, Len(p) - 1)

IsPrefix(a, b) == Len(a) <= Len(b) /\ SubSeq(b, 1, Len(a)) = a

Put(f, p, e) == [q \in DOMAIN f \cup {p} |-> IF q = p THEN e ELSE f[q]]

\* the path a system call acts on, the working directory being "/"
SysPath(s) == s.segs

\* where the target string t of the symlink at linkpath leads
TargetPath(linkpath, t) == IF t.abs THEN t.segs ELSE Parent(linkpath) \o t.segs

\* how many symlinks a path resolution follows before ELOOP
MaxFollow == 4

\* path resolution of the last component, as stat, open, chmod do it
RECURSIVE Follow(_, _, _)
Follow(f, p, fuel) ==
  IF p \notin DOMAIN f THEN [ok |-> FALSE, path |-> p]
  ELSE IF f[p].kind = "lnk"
       THEN IF fuel = 0 THEN [ok |-> FALSE, path |-> p]
            ELSE Follow(f, TargetPath(p, f[p].target), fuel - 1)
       ELSE [ok |-> TRUE, path |-> p]

\* stat(path, &buf) >= 0
StatOk(f, s) == Follow(f, SysPath(s), MaxFollow).ok

\* the struct stat that stat(path) fills
Stat(f, s) == f[Follow(f, SysPath(s), MaxFollow).path]

\* lstat(path, &buf) >= 0
LstatOk(f, s) == SysPath(s) \in DOMAIN f

Lstat(f, s) == f[SysPath(s)]

CanCreate(f, p) ==
  /\ p \notin DOMAIN f
  /\ Parent(p) \in DOMAIN f
  /\ f[Parent(p)].kind = "dir"

\* rmkdir(path, mode) under the process mask um: [ok, fs]
RECURSIVE rmkdir(_, _, _, _)
rmkdir(f, s, mode, um) ==
  LET p == SysPath(s)
      parent == PathStr(s.abs, Parent(s.segs))
      up == IF Len(p) > 1 /\ ~StatOk(f, parent)
            THEN rmkdir(f, parent, mode, um)
            ELSE [ok |-> TRUE, fs |-> f]
  IN  IF ~up.ok THEN [ok |-> FALSE, fs |-> up.fs]
      ELSE IF StatOk(up.fs, s) /\ Stat(up.fs, s).kind = "dir"
           THEN [ok |-> TRUE, fs |-> up.fs]
           ELSE IF CanCreate(up.fs, p)
                THEN [ok |-> TRUE,
                      fs |-> Put(up.fs, p,
                                 Entry("dir", BitClear(mode, um), 0, 0, 0, NULL, "mkdir"))]
                ELSE [ok |-> FALSE, fs |-> up.fs]

\* copy_file(source, dest, s) under the process mask um; how is "ok", "open"
\* (the source cannot be opened) or "write" (a short write): [ok, fs]
copy_file(f, source, to, s, um, how) ==
  LET p == SysPath(to)
      \* open(to, O_WRONLY|O_CREAT, mode) follows a symlink at to
      RECURSIVE Out(_, _)
      Out(q, fuel) ==
        IF q \in DOMAIN f /\ f[q].kind = "lnk" /\ fuel > 0
        THEN Out(TargetPath(q, f[q].target), fuel - 1)
        ELSE q
      o == Out(p, MaxFollow)
      data == IF how = "write" THEN 0 ELSE Lstat(f, source).data
  IN  IF how = "open" THEN [ok |-> FALSE, fs |-> f]
      ELSE IF o \in DOMAIN f
           THEN IF f[o].kind = "reg"
                THEN [ok |-> how = "ok", fs |-> [f EXCEPT ![o].data = data]]
                ELSE [ok |-> FALSE, fs |-> f]
           ELSE IF CanCreate(f, o)
                THEN [ok |-> how = "ok",
                      fs |-> Put(f, o, Entry("reg", BitClear(s.mode, um), 0, 0, data,
                                             NULL, "copy_file"))]
                ELSE [ok |-> FALSE, fs |-> f]

\* copy_time(dest, &s) on the filesystem: utime, chown and chmod follow a
\* symlink at dest.  [ok, fs, s]
CopyTimeAt(f, to, s, fail) ==
  LET r == Follow(f, SysPath(to), MaxFollow)
      allfail == [utime |-> TRUE, chown |-> TRUE, chmod |-> TRUE]
      m == IF r.ok THEN copy_time(f[r.path], s, fail)
           ELSE copy_time(Entry("none", 0, 0, 0, 0, NULL, "none"), s, allfail)
  IN  [ok |-> m.result,
       fs |-> IF r.ok THEN [f EXCEPT ![r.path] = m.file] ELSE f,
       s  |-> m.s]

\* symlink(target, dest) == 0, or lets it fail when inject
Symlink(f, target, to, via, inject) ==
  IF ~inject /\ CanCreate(f, SysPath(to))
  THEN [ok |-> TRUE,
        fs |-> Put(f, SysPath(to), Entry("lnk", 511, 0, 0, 0, target, via))]
  ELSE [ok |-> FALSE, fs |-> f]

\* a symlink_file that links to the counterpart without reading through it
symlink_file_mut_noread(f, source, to, inject) ==
  IF ~LstatOk(f, source) THEN [ok |-> FALSE, fs |-> f]
  ELSE Symlink(f, source, to, "symlink_file", inject)

\* symlink_file(source, dest): link to source, or to what source links to
symlink_file(f, source, to, inject) ==
  IF ~LstatOk(f, source) THEN [ok |-> FALSE, fs |-> f]
  ELSE LET src == IF Lstat(f, source).kind = "lnk" THEN Lstat(f, source).target
                  ELSE source
       IN  Symlink(f, src, to, "symlink_file", inject)

-----------------------------------------------------------------------------
(* The world the runs happen in *)

nB == <<66>>
na == <<97>>
nb == <<98>>
nc == <<99>>
nd == <<100>>
ne == <<101>>
Dot == <<46>>
DotDot == <<46, 46>>

NoPattern == [nul |-> TRUE, chars |-> <<>>]

Pattern(chars) == [nul |-> FALSE, chars |-> chars]

\* the source tree: d/ { a, b, e/ { c } }; b is a symlink to a, a fifo or a
\* character device; d has mode 0555, e 02750, a 0644, c 04755
SourceTree(bkind) ==
  LET none == Entry("dir", 493, 0, 1, 0, NULL, "env")
  IN  [q \in {<<>>, <<nB>>, <<nd>>, <<nd, na>>, <<nd, nb>>, <<nd, ne>>, <<nd, ne, nc>>} |->
        CASE q = <<nd>>         -> Entry("dir", 365, 1000, 1, 0, NULL, "env")
          [] q = <<nd, na>>     -> Entry("reg", 420, 1000, 1, 1, NULL, "env")
          [] q = <<nd, nb>>     -> Entry(bkind, 420, 1000, 1, 0,
                                         IF bkind = "lnk" THEN PathStr(FALSE, <<na>>) ELSE NULL,
                                         "env")
          [] q = <<nd, ne>>     -> Entry("dir", 1512, 1000, 1, 0, NULL, "env")
          [] q = <<nd, ne, nc>> -> Entry("reg", 2541, 1000, 1, 1, NULL, "env")
          [] OTHER              -> none]

\* the entries of directory p
ChildNames(f, p) ==
  {q[Len(q)] : q \in {q \in DOMAIN f : Len(q) = Len(p) + 1 /\ IsPrefix(p, q)}}

\* the part of the filesystem outside the backup root
Outside(f) == {q \in DOMAIN f : ~IsPrefix(SysPath(root), q)}

RECURSIVE Orders(_)
Orders(S) ==
  IF S = {} THEN {<<>>}
  ELSE UNION {{<<n>> \o o : o \in Orders(S \ {n})} : n \in S}

RECURSIVE LocateFold(_, _, _, _)
LocateFold(st, r, order, dst) ==
  IF order = <<>> THEN st
  ELSE LocateFold(LocateVisit(st, r, Head(order), Head(order) \in dst), r, Tail(order), dst)

\* locate_previous(root): every answer the readdir order and the values of
\* the uninitialised tm_isdst allow; NULL when root cannot be opened.  "."
\* and "..", which LocateVisit passes over, are left out of the orders.
locate_previous(f, r) ==
  IF ~(StatOk(f, r) /\ Stat(f, r).kind = "dir") THEN {NULL}
  ELSE LET names == {n \in ChildNames(f, SysPath(r)) \cup {Dot, DotDot} : ~ignore_dir(n)}
       IN  {LocateFold([latest |-> 0, result |-> NULL], r, order, dst).result :
              order \in Orders(names), dst \in SUBSET names}

-----------------------------------------------------------------------------
(* main *)

\* the state a run starts from: a command line, a source tree, an empty backup root
Init ==
  /\ root \in {PathStr(TRUE, <<nB>>), PathStr(FALSE, <<nB>>)}
  /\ sources \in {<<PathStr(FALSE, <<nd>>)>>,
                  <<PathStr(FALSE, <<nd, ne>>), PathStr(FALSE, <<nd>>)>>}
  /\ exclude_pattern \in {NoPattern, Pattern(<<100, 47, 101>>),
                          Pattern(<<42, 97>>), Pattern(<<100>>)}
  /\ proc_umask = 18
  /\ force_copy \in BOOLEAN
  /\ \E bkind \in {"lnk", "fifo", "chr"} : fs = SourceTree(bkind)
  /\ day = 1
  /\ pc = "idle"
  /\ x = 1
  /\ result = 0
  /\ dest = NULL
  /\ previous = NULL
  /\ call = NULL
  /\ stack = <<>>
  /\ runs = 0 /\ edits = 0 /\ faulted = FALSE
  /\ ops = <<>>
  /\ edited = {}
  /\ changed = {}
  /\ allOk = TRUE
  /\ failed = FALSE
  /\ afterFail = 0
  /\ wroteAfterFail = FALSE
  /\ lp_children = {} /\ lp_pending = {} /\ lp_latest = 0 /\ lp_result = NULL
  /\ lp_pc = "off"
  /\ ct_in = [mode |-> 0, uid |-> 0, mtime |-> 0]
  /\ ct_s = [mode |-> 0, uid |-> 0, mtime |-> 0]
  /\ ct_fail = NoFail
  /\ ct_file = [mode |-> 0, uid |-> 0, mtime |-> 0]
  /\ ct_result = TRUE /\ ct_calls = <<>> /\ ct_pc = "off"

\* current_time(date_format)
current_time(d) == Stamp(1, d, 26, 0, 0, 0)

\* main, from locate_previous to the loop over the sources.  Runs are a day
\* apart; once a system call has been made to fail no further run is explored.
StartRun ==
  /\ pc \in {"idle", "done"}
  /\ runs < MaxRuns
  /\ ~faulted
  /\ \E prev \in locate_previous(fs, root) :
       LET newdest == join_path(root, PathStr(FALSE, <<current_time(day + 1)>>))
           made == rmkdir(fs, newdest, 493, proc_umask)
           collide == StatOk(fs, newdest)
       IN  /\ day' = day + 1
           /\ previous' = prev
           /\ dest' = newdest
           /\ fs' = IF collide THEN fs ELSE made.fs
           /\ result' = IF collide \/ ~made.ok THEN 1 ELSE 0
           /\ pc' = IF collide \/ ~made.ok THEN "done" ELSE "main"
  /\ x' = 1
  /\ call' = NULL
  /\ stack' = <<>>
  /\ runs' = runs + 1
  /\ ops' = <<>>
  /\ edited' = {}
  /\ changed' = edited
  /\ allOk' = (allOk /\ result = 0)
  /\ failed' = FALSE
  /\ afterFail' = 0
  /\ wroteAfterFail' = FALSE
  /\ UNCHANGED <<cfgvars, force_copy, edits, faulted>>

\* between runs somebody rewrites a regular source file: new content, new
\* modification time
EditSource ==
  /\ pc \in {"idle", "done"}
  /\ edits < MaxEdits
  /\ ~faulted
  /\ \E q \in {q \in Outside(fs) : fs[q].kind = "reg"} :
       /\ fs' = [fs EXCEPT ![q].data = @ + 1, ![q].mtime = edits + 2]
       /\ edited' = edited \cup {q}
  /\ edits' = edits + 1
  /\ UNCHANGED <<cfgvars, force_copy, day, pc, x, result, dest, previous, call, stack,
                 runs, faulted, ops, changed, allOk, failed, afterFail,
                 wroteAfterFail>>

\* for (x = optind; x < argc-1; x++) process_file(argv[x], dest, previous)
MainCall ==
  /\ pc = "main"
  /\ x <= Len(sources)
  /\ call' = sources[x]
  /\ pc' = "call"
  /\ UNCHANGED <<cfgvars, force_copy, fs, day, x, result, dest, previous, stack, bookvars>>

\* the loop ends: every source was processed
MainDone ==
  /\ pc = "main"
  /\ x > Len(sources)
  /\ pc' = "done"
  /\ UNCHANGED <<cfgvars, force_copy, fs, day, x, result, dest, previous, call, stack,
                 bookvars>>

-----------------------------------------------------------------------------
(* process_file *)

\* a destination that keeps only the last component of the source path
DestOf_mut_flat(source) ==
  join_path(dest, PathStr(FALSE, <<source.segs[Len(source.segs)]>>))

\* a destination under the previous snapshot when there is one
DestOf_mut_prev(source) ==
  IF previous.nul THEN join_path(dest, source) ELSE join_path(previous, source)

\* char* dest = join_path(root, source)
DestOf(source) == join_path(dest, source)

\* char* prev_dest = prev_root ? join_path(prev_root, source) : NULL
PrevDestOf(source) == IF previous.nul THEN NULL ELSE join_path(previous, source)

\* an exclusion test on the last component instead of the whole path
Excluded_mut_basename(source) ==
  /\ ~exclude_pattern.nul
  /\ fnmatch(exclude_pattern.chars, source.segs[Len(source.segs)])

\* exclude_pattern && !fnmatch(exclude_pattern, source, 0)
Excluded(source) ==
  ~exclude_pattern.nul /\ fnmatch(exclude_pattern.chars, PathChars(source))

\* the fresh-copy test without force_copy
FreshCopy_mut_noforce(f, source) ==
  \/ PrevDestOf(source).nul
  \/ ~StatOk(f, PrevDestOf(source))
  \/ Lstat(f, source).mtime /= Stat(f, PrevDestOf(source)).mtime

\* the test of line 421: copy afresh rather than link to the previous backup
FreshCopy(f, source) ==
  \/ PrevDestOf(source).nul
  \/ force_copy
  \/ ~StatOk(f, PrevDestOf(source))
  \/ Lstat(f, source).mtime /= Stat(f, PrevDestOf(source)).mtime

\* the failures a call may be made to suffer
Faults(kinds) == IF faulted THEN {"none"} ELSE {"none"} \cup kinds

FailOf(flt) == [utime |-> flt = "utime", chown |-> flt = "chown", chmod |-> flt = "chmod"]

OpRec(op, ok, mkmode, chmodArg) ==
  [op |-> op, ok |-> ok, mkmode |-> mkmode, chmodArg |-> chmodArg]

\* process_file returns val to its caller: the directory being read, or main
Return(val, stk) ==
  /\ call' = NULL
  /\ IF stk = <<>>
     THEN /\ stack' = <<>>
          /\ IF val THEN x' = x + 1 /\ pc' = "main" /\ result' = result
             ELSE x' = x /\ pc' = "done" /\ result' = 1
     ELSE /\ stack' = [stk EXCEPT ![Len(stk)].result = val]
          /\ pc' = "readdir"
          /\ UNCHANGED <<x, result>>
  /\ failed' = (failed \/ ~val)
  /\ wroteAfterFail' = (wroteAfterFail \/ (failed /\ fs' /= fs))

\* a process_file call has been entered
Entered(flt) ==
  /\ afterFail' = IF failed THEN afterFail + 1 ELSE afterFail
  /\ faulted' = (faulted \/ flt /= "none")
  /\ UNCHANGED <<cfgvars, force_copy, day, dest, previous, runs, edits, edited, changed, allOk>>

\* lstat(source) < 0
ProcNoStat ==
  /\ pc = "call"
  /\ \E flt \in Faults({"lstat"}) :
       /\ flt = "lstat" \/ ~LstatOk(fs, call)
       /\ Entered(flt)
  /\ fs' = fs
  /\ ops' = Put(ops, call.segs, OpRec("nostat", FALSE, 0, 0))
  /\ Return(FALSE, stack)

\* the exclude pattern matches: return true
ProcExcluded ==
  /\ pc = "call"
  /\ LstatOk(fs, call)
  /\ Excluded(call)
  /\ Entered("none")
  /\ fs' = fs
  /\ ops' = Put(ops, call.segs, OpRec("skip", TRUE, 0, 0))
  /\ Return(TRUE, stack)

\* S_ISDIR: make the directory and open the source
ProcDir ==
  /\ pc = "call"
  /\ LstatOk(fs, call)
  /\ ~Excluded(call)
  /\ Lstat(fs, call).kind = "dir"
  /\ \E flt \in Faults({"mkdir", "opendir"}) :
       LET st == Lstat(fs, call)
           \* mode_t mode = source_stat.st_mode |= S_IRWXU;
           mode == BitOr(st.mode, S_IRWXU)
           made == IF flt = "mkdir" THEN [ok |-> FALSE, fs |-> fs]
                   ELSE rmkdir(fs, DestOf(call), mode, 0)
           frame == [source |-> call,
                     pending |-> {n \in ChildNames(fs, SysPath(call)) \cup {Dot, DotDot} :
                                    ~ignore_dir(n)},
                     result |-> TRUE,
                     st |-> [st EXCEPT !.mode = mode]]
       IN  /\ Entered(flt)
           /\ fs' = made.fs
           /\ ops' = Put(ops, call.segs, OpRec("dir", FALSE, mode, 0))
           /\ IF made.ok /\ flt /= "opendir"
              THEN /\ stack' = Append(stack, frame)
                   /\ pc' = "readdir"
                   /\ call' = NULL
                   /\ wroteAfterFail' = (wroteAfterFail \/ (failed /\ fs' /= fs))
                   /\ UNCHANGED <<x, result, failed>>
              ELSE Return(FALSE, stack)

\* a readdir loop that does not test result
ReadDirCall_mut_noresult ==
  /\ pc = "readdir"
  /\ \E name \in stack[Len(stack)].pending :
       /\ stack' = [stack EXCEPT ![Len(stack)].pending = @ \ {name}]
       /\ call' = join_path(stack[Len(stack)].source, PathStr(FALSE, <<name>>))
  /\ pc' = "call"
  /\ UNCHANGED <<cfgvars, force_copy, fs, day, x, result, dest, previous, bookvars>>

\* while ((entry = readdir(dir)) && result): process_file is called on every
\* entry but "." and ".."
ReadDirCall ==
  /\ pc = "readdir"
  /\ stack[Len(stack)].result
  /\ \E name \in stack[Len(stack)].pending :
       /\ stack' = [stack EXCEPT ![Len(stack)].pending = @ \ {name}]
       /\ call' = join_path(stack[Len(stack)].source, PathStr(FALSE, <<name>>))
  /\ pc' = "call"
  /\ UNCHANGED <<cfgvars, force_copy, fs, day, x, result, dest, previous, bookvars>>

\* the loop is over: closedir, then chmod and copy_time if all went well
LeaveDir ==
  /\ pc = "readdir"
  /\ LET top == stack[Len(stack)]
         d == DestOf(top.source)
         rest == SubSeq(stack, 1, Len(stack) - 1)
     IN  /\ top.pending = {} \/ ~top.result
         /\ \E flt \in Faults({"chmod1", "chown"}) :
              LET arg == BitClear(top.st.mode, proc_umask)
                  r == Follow(fs, SysPath(d), MaxFollow)
                  f1 == IF r.ok THEN [fs EXCEPT ![r.path].mode = arg] ELSE fs
                  ct == CopyTimeAt(f1, d, top.st, FailOf(flt))
              IN  /\ top.result \/ flt = "none"
                  /\ faulted' = (faulted \/ flt /= "none")
                  /\ IF ~top.result
                     THEN /\ fs' = fs
                          /\ ops' = ops
                          /\ Return(FALSE, rest)
                     ELSE IF flt = "chmod1" \/ ~r.ok
                     THEN /\ fs' = fs
                          /\ ops' = [ops EXCEPT ![top.source.segs].chmodArg = arg]
                          /\ Return(FALSE, rest)
                     ELSE /\ fs' = ct.fs
                          /\ ops' = [ops EXCEPT ![top.source.segs].chmodArg = arg,
                                                ![top.source.segs].ok = ct.ok]
                          /\ Return(ct.ok, rest)
  /\ UNCHANGED <<cfgvars, force_copy, day, dest, previous, runs, edits, edited, changed, allOk,
                 afterFail>>

\* S_ISREG: a fresh copy, or a symlink to the previous backup
ProcReg ==
  /\ pc = "call"
  /\ LstatOk(fs, call)
  /\ ~Excluded(call)
  /\ Lstat(fs, call).kind = "reg"
  /\ LET st == Lstat(fs, call)
         d == DestOf(call)
     IN  IF FreshCopy(fs, call)
         THEN \E flt \in Faults({"open", "write", "chown"}) :
                LET cp == copy_file(fs, call, d, st, proc_umask,
                                    IF flt \in {"open", "write"} THEN flt ELSE "ok")
                    ct == CopyTimeAt(cp.fs, d, st, FailOf(flt))
                IN  /\ Entered(flt)
                    /\ fs' = IF cp.ok THEN ct.fs ELSE cp.fs
                    /\ ops' = Put(ops, call.segs, OpRec("copy", cp.ok /\ ct.ok, 0, 0))
                    /\ Return(cp.ok /\ ct.ok, stack)
         ELSE \E flt \in Faults({"symlink"}) :
                LET ln == symlink_file(fs, PrevDestOf(call), d, flt = "symlink")
                IN  /\ Entered(flt)
                    /\ fs' = ln.fs
                    /\ ops' = Put(ops, call.segs, OpRec("link", ln.ok, 0, 0))
                    /\ Return(ln.ok, stack)

\* S_ISLNK: readlink, symlink, lchown
ProcSymlink ==
  /\ pc = "call"
  /\ LstatOk(fs, call)
  /\ ~Excluded(call)
  /\ Lstat(fs, call).kind = "lnk"
  /\ \E flt \in Faults({"symlink", "lchown"}) :
       LET st == Lstat(fs, call)
           ln == Symlink(fs, st.target, DestOf(call), "symlink", flt = "symlink")
           own == ln.ok /\ flt /= "lchown"
       IN  /\ Entered(flt)
           /\ fs' = IF own THEN [ln.fs EXCEPT ![SysPath(DestOf(call))].uid = st.uid]
                    ELSE ln.fs
           /\ ops' = Put(ops, call.segs, OpRec("symlink", own, 0, 0))
           /\ Return(own, stack)

\* S_ISFIFO: mkfifo; S_ISBLK, S_ISCHR, S_ISSOCK: mknod
ProcSpecial ==
  /\ pc = "call"
  /\ LstatOk(fs, call)
  /\ ~Excluded(call)
  /\ Lstat(fs, call).kind \in {"fifo", "chr", "blk", "sock"}
  /\ \E flt \in Faults({"mknod"}) :
       LET st == Lstat(fs, call)
           p == SysPath(DestOf(call))
           ok == flt = "none" /\ CanCreate(fs, p)
           via == IF st.kind = "fifo" THEN "mkfifo" ELSE "mknod"
       IN  /\ Entered(flt)
           /\ fs' = IF ok
                    THEN Put(fs, p, Entry(st.kind, BitClear(st.mode, proc_umask), 0, 0, 0,
                                          NULL, via))
                    ELSE fs
           /\ ops' = Put(ops, call.segs, OpRec(via, ok, 0, 0))
           /\ Return(ok, stack)

-----------------------------------------------------------------------------
(* Specifications *)

vars == <<lpvars, ctvars, walkvars>>


Next ==
  \/ (StartRun /\ UNCHANGED <<lpvars, ctvars>>)
  \/ (EditSource /\ UNCHANGED <<lpvars, ctvars>>)
  \/ (MainCall /\ UNCHANGED <<lpvars, ctvars>>)
  \/ (MainDone /\ UNCHANGED <<lpvars, ctvars>>)
  \/ (ProcNoStat /\ UNCHANGED <<lpvars, ctvars>>)
  \/ (ProcExcluded /\ UNCHANGED <<lpvars, ctvars>>)
  \/ (ProcDir /\ UNCHANGED <<lpvars, ctvars>>)
  \/ (ReadDirCall /\ UNCHANGED <<lpvars, ctvars>>)
  \/ (LeaveDir /\ UNCHANGED <<lpvars, ctvars>>)
  \/ (ProcReg /\ UNCHANGED <<lpvars, ctvars>>)
  \/ (ProcSymlink /\ UNCHANGED <<lpvars, ctvars>>)
  \/ (ProcSpecial /\ UNCHANGED <<lpvars, ctvars>>)

Spec == Init /\ [][Next]_vars

\* the backup root holds up to MaxChildren of the names of NamePool
LocateInit ==
  /\ lp_children \in {c \in SUBSET NamePool : Cardinality(c) <= MaxChildren}
  /\ lp_pending = lp_children
  /\ lp_latest = 0
  /\ lp_result = NULL
  /\ lp_pc = "loop"
  /\ ct_in = [mode |-> 0, uid |-> 0, mtime |-> 0]
  /\ ct_s = [mode |-> 0, uid |-> 0, mtime |-> 0]
  /\ ct_fail = NoFail
  /\ ct_file = [mode |-> 0, uid |-> 0, mtime |-> 0]
  /\ ct_result = TRUE /\ ct_calls = <<>> /\ ct_pc = "off"
  /\ root = NULL /\ sources = <<>> /\ exclude_pattern = NoPattern /\ proc_umask = 18
  /\ force_copy = FALSE /\ fs = <<>> /\ day = 1 /\ pc = "off" /\ x = 1 /\ result = 0
  /\ dest = NULL /\ previous = NULL /\ call = NULL /\ stack = <<>>
  /\ runs = 0 /\ edits = 0 /\ faulted = FALSE /\ ops = <<>> /\ edited = {} /\ changed = {}
  /\ allOk = TRUE /\ failed = FALSE /\ afterFail = 0 /\ wroteAfterFail = FALSE

LocateNext ==
  \/ (LocateReaddir /\ UNCHANGED <<ctvars, walkvars>>)
  \/ (LocateReturn /\ UNCHANGED <<ctvars, walkvars>>)

SpecLocate == LocateInit /\ [][LocateNext]_vars

\* a struct stat, the system calls that fail, a file just created
MetaInit ==
  /\ ct_in \in [mode : MetaModes, uid : {0, 1000}, mtime : {1, 2}]
  /\ ct_s = ct_in
  /\ ct_fail \in FailSets
  /\ ct_file = [mode |-> 384, uid |-> 0, mtime |-> 9]
  /\ ct_result = TRUE
  /\ ct_calls = <<>>
  /\ ct_pc = "utime"
  /\ lp_children = {} /\ lp_pending = {} /\ lp_latest = 0 /\ lp_result = NULL
  /\ lp_pc = "off"
  /\ root = NULL /\ sources = <<>> /\ exclude_pattern = NoPattern /\ proc_umask = 18
  /\ force_copy = FALSE /\ fs = <<>> /\ day = 1 /\ pc = "off" /\ x = 1 /\ result = 0
  /\ dest = NULL /\ previous = NULL /\ call = NULL /\ stack = <<>>
  /\ runs = 0 /\ edits = 0 /\ faulted = FALSE /\ ops = <<>> /\ edited = {} /\ changed = {}
  /\ allOk = TRUE /\ failed = FALSE /\ afterFail = 0 /\ wroteAfterFail = FALSE

MetaNext ==
  \/ (MetaUtime /\ UNCHANGED <<lpvars, walkvars>>)
  \/ (MetaChown /\ UNCHANGED <<lpvars, walkvars>>)
  \/ (MetaChmod /\ UNCHANGED <<lpvars, walkvars>>)

SpecMeta == MetaInit /\ [][MetaNext]_vars

-----------------------------------------------------------------------------
(* What the claims speak of *)

\* the new snapshot's root, and the entries below it by their relative path
NewRoot == SysPath(dest)

Snap ==
  IF dest.nul THEN {}
  ELSE {q \in DOMAIN fs : IsPrefix(NewRoot, q) /\ q /= NewRoot}

Rel(q) == SubSeq(q, Len(NewRoot) + 1, Len(q))

InSnap(P) == NewRoot \o P

\* the exclusion pattern matches the source path with components P
Matches(P) ==
  ~exclude_pattern.nul /\ fnmatch(exclude_pattern.chars, PathChars(PathStr(FALSE, P)))

\* P lies at or below source argument A and nothing from A down to P matches
Walked(A, P) ==
  /\ IsPrefix(A, P)
  /\ \A k \in Len(A)..Len(P) : ~Matches(SubSeq(P, 1, k))

\* the source entries the walk reaches
Reach ==
  {P \in Outside(fs) : \E i \in 1..Len(sources) : Walked(sources[i].segs, P)}

\* the directories above a source argument that is reached
Above ==
  {P \in Outside(fs) : /\ P /= <<>>
                       /\ \E i \in 1..Len(sources) :
                            /\ sources[i].segs \in Reach
                            /\ IsPrefix(P, sources[i].segs)
                            /\ P /= sources[i].segs}

RegularOps == {P \in DOMAIN ops : ops[P].op \in {"copy", "link"}}

-----------------------------------------------------------------------------
(* C1 *)

\* the counterpart of source path P in the previous snapshot
Counterpart(P) == previous.segs \o P

\* C1: a regular file that process_file visits is copied afresh (copy_file,
\* then copy_time) exactly when there is no previous snapshot, or a full
\* backup is forced, or the counterpart cannot be stat'd, or the
\* counterpart's modification time differs from the source's; otherwise a
\* symlink is made and nothing is copied.
C1_CopyIffChanged ==
  \A P \in RegularOps :
    LET c == Follow(fs, Counterpart(P), MaxFollow)
        fresh == \/ previous.nul
                 \/ force_copy
                 \/ ~c.ok
                 \/ fs[c.path].mtime /= fs[P].mtime
    IN  P \notin edited =>
        /\ (ops[P].op = "copy") <=> fresh
        /\ ops[P].ok =>
             IF fresh
             THEN /\ fs[InSnap(P)].kind = "reg"
                  /\ fs[InSnap(P)].via = "copy_file"
                  /\ fs[InSnap(P)].data = fs[P].data
                  /\ fs[InSnap(P)].mtime = fs[P].mtime
             ELSE /\ fs[InSnap(P)].kind = "lnk"
                  /\ fs[InSnap(P)].via = "symlink_file"

\* one run links an unchanged file and copies a changed one, with a previous
\* snapshot and without -f
C1_Witness ==
  /\ ~previous.nul /\ ~force_copy
  /\ \E P, Q \in RegularOps :
       /\ ops[P].op = "link" /\ ops[P].ok
       /\ ops[Q].op = "copy" /\ ops[Q].ok
       /\ Follow(fs, Counterpart(Q), MaxFollow).ok

-----------------------------------------------------------------------------
(* C2 *)

\* C2: over successful runs, a regular file with the same content and
\* modification time at run N and run N+1 is a symlink in run N+1's
\* snapshot, and resolving it from the directory it was made in reaches a
\* stored file with the source's content.
C2_UnchangedResolves ==
  (pc = "done" /\ result = 0 /\ allOk /\ runs >= 2 /\ ~force_copy /\ ~previous.nul) =>
    \A P \in RegularOps :
      (P \notin changed /\ P \notin edited) =>
        LET r == Follow(fs, InSnap(P), MaxFollow)
        IN  /\ fs[InSnap(P)].kind = "lnk"
            /\ r.ok
            /\ fs[r.path].kind = "reg"
            /\ fs[r.path].data = fs[P].data

-----------------------------------------------------------------------------
(* C3 *)

\* C3: the target of a link-to-previous symlink is never itself a symlink,
\* however many runs leave the file unchanged: the path it names, as the
\* program addressed it, is a stored regular file, and what the link leads
\* to from its own directory is not a symlink either.
C3_OneLevel ==
  \A q \in DOMAIN fs :
    fs[q].via = "symlink_file" =>
      LET t == fs[q].target
      IN  /\ SysPath(t) \in DOMAIN fs
          /\ fs[SysPath(t)].kind = "reg"
          /\ TargetPath(q, t) \in DOMAIN fs => fs[TargetPath(q, t)].kind /= "lnk"

\* the third run links a file whose counterpart in the second snapshot is
\* itself a link
C3_Witness ==
  /\ runs = 3
  /\ ~previous.nul
  /\ \E P \in RegularOps :
       /\ ops[P].op = "link" /\ ops[P].ok
       /\ fs[Counterpart(P)].kind = "lnk"

-----------------------------------------------------------------------------
(* C5 *)

\* C5, as stated: nothing in the new snapshot matches the pattern or lies
\* below a directory that matches it, and every excluded entry (a visited
\* entry that matches) returns success.
C5_NothingMatchingInSnapshot ==
  /\ \A q \in Snap : \A k \in 1..Len(Rel(q)) : ~Matches(SubSeq(Rel(q), 1, k))
  /\ \A P \in DOMAIN ops :
       (Matches(P) /\ ops[P].op /= "nostat") => (ops[P].op = "skip" /\ ops[P].ok)

\* C5, amended: every entry of the new snapshot is either a directory above
\* a source argument (made by rmkdir, which asks no pattern) or lies at or
\* below a source argument with no matching path from that argument down to
\* it; and every visited entry (one lstat found) that matches returns
\* success, making nothing.
C5_NothingWalkedMatches ==
  /\ \A q \in Snap :
       \E i \in 1..Len(sources) :
         LET A == sources[i].segs
         IN  \/ IsPrefix(Rel(q), A) /\ Rel(q) /= A /\ fs[q].kind = "dir"
             \/ Walked(A, Rel(q))
  /\ \A P \in DOMAIN ops :
       ops[P].op /= "nostat" =>
         /\ Matches(P) <=> ops[P].op = "skip"
         /\ Matches(P) => ops[P].ok

\* a run that excluded a directory with entries in it ends in success
C5_Witness ==
  /\ pc = "done" /\ result = 0
  /\ Snap /= {}
  /\ \E P \in DOMAIN ops :
       /\ ops[P].op = "skip"
       /\ fs[P].kind = "dir"
       /\ ChildNames(fs, P) /= {}

-----------------------------------------------------------------------------
(* C6 *)

\* a destination entry of the kind its source entry calls for
Mirrors(s, d) ==
  CASE s.kind = "dir" -> d.kind = "dir"
    [] s.kind = "reg" -> d.kind = "reg" \/ (d.kind = "lnk" /\ d.via = "symlink_file")
    [] s.kind = "lnk" -> d.kind = "lnk" /\ d.via = "symlink" /\ d.target = s.target
    [] OTHER          -> d.kind = s.kind

\* C6: after a successful run every source entry the walk reaches has its
\* entry at newRoot/P, of the source's kind, and the snapshot holds nothing
\* else but the directories above the source arguments, which are source
\* directories too.
C6_Mirror ==
  (pc = "done" /\ result = 0) =>
    /\ \A P \in Reach : InSnap(P) \in DOMAIN fs /\ Mirrors(fs[P], fs[InSnap(P)])
    /\ \A q \in Snap :
         /\ Rel(q) \in Reach \cup Above
         /\ Rel(q) \in Above => fs[q].kind = "dir" /\ fs[Rel(q)].kind = "dir"

\* a successful run over a tree with a nested directory and a pruned entry
C6_Witness ==
  /\ pc = "done" /\ result = 0
  /\ \E P \in Reach : Len(P) = 3
  /\ \E P \in DOMAIN ops : ops[P].op = "skip"
  /\ Cardinality(Snap) >= 4

-----------------------------------------------------------------------------
(* C7 *)

\* C7: a step of a run changes the filesystem only at or below the new
\* snapshot root; everything else, the previous snapshot included, stays
\* as it was.
C7_OnlyNewRootWritten ==
  [][edits' = edits =>
       \A q \in DOMAIN fs \cup DOMAIN fs' :
         \/ IsPrefix(SysPath(dest'), q)
         \/ (q \in DOMAIN fs /\ q \in DOMAIN fs' /\ fs'[q] = fs[q])]_vars

\* a run with a previous snapshot has copied one file and linked another
C7_Witness ==
  /\ pc = "done" /\ result = 0
  /\ ~previous.nul
  /\ \E P, Q \in RegularOps : ops[P].op = "link" /\ ops[Q].op = "copy"
  /\ \E P \in DOMAIN ops : ops[P].op = "dir" /\ ops[P].ok

-----------------------------------------------------------------------------
(* C8 *)

\* C8: once a process_file call has returned failure, no further call is
\* entered, every directory being read is left with failure, main's loop
\* does not go on to the next source and ends with status 1, and the
\* filesystem stays as the failure left it.
C8_FailFast ==
  failed =>
    /\ afterFail = 0
    /\ ~wroteAfterFail
    /\ pc \in {"readdir", "done"}
    /\ pc = "readdir" => ~stack[Len(stack)].result
    /\ pc = "done" => result = 1

\* a failure inside d/e has come back to d, which still has entries unread
C8_Witness ==
  /\ failed
  /\ pc = "readdir"
  /\ stack[Len(stack)].source.segs = <<nd>>
  /\ stack[Len(stack)].pending /= {}
  /\ <<nd, ne>> \in DOMAIN ops
  /\ Snap /= {}

-----------------------------------------------------------------------------
(* C9 *)

\* C9: a directory whose children all succeeded was made with the source
\* mode plus owner rwx, then given the exact source mode less the process
\* mask, so its owner bits end up those of the source.
C9_DirModeRestored ==
  (pc = "done" /\ result = 0) =>
    \A P \in DOMAIN ops :
      (ops[P].op = "dir" /\ ops[P].ok) =>
        /\ ops[P].mkmode = BitOr(fs[P].mode, S_IRWXU)
        /\ ops[P].chmodArg = BitClear(fs[P].mode, proc_umask)
        /\ BitAnd(fs[InSnap(P)].mode, S_IRWXU) = BitAnd(fs[P].mode, S_IRWXU)

-----------------------------------------------------------------------------
(* C4 *)

\* the instant a name stands for
Instant(name) == mktime(strptime(name, date_format).tm, FALSE)

\* the children locate_previous is to consider
Candidates == {n \in lp_children : ~ignore_dir(n) /\ ParsesFully(n)}

\* C4: locate_previous returns the backup root joined with a child whose
\* name parses completely and whose instant is the greatest of all such
\* children, and none when no child's name parses.
C4_LatestCandidate ==
  lp_pc = "done" =>
    IF Candidates = {} THEN lp_result = NULL
    ELSE \E n \in Candidates :
           /\ lp_result = join_path(LpRoot, PathStr(FALSE, <<n>>))
           /\ \A m \in Candidates : Instant(m) <= Instant(n)

-----------------------------------------------------------------------------
(* C10 *)

CallNames == [i \in 1..Len(ct_calls) |-> ct_calls[i].name]

\* C10: copy_time calls utime, chown and chmod in that order whatever fails,
\* returns false exactly when one of them failed, and passes chmod the mode
\* without setuid and setgid exactly when chown failed.
C10_AllThreeAttempted ==
  /\ CallNames = CASE ct_pc = "utime" -> <<>>
                   [] ct_pc = "chown" -> <<"utime">>
                   [] ct_pc = "chmod" -> <<"utime", "chown">>
                   [] OTHER           -> <<"utime", "chown", "chmod">>
  /\ ct_pc = "ret" =>
       /\ ct_result <=> ~(ct_fail.utime \/ ct_fail.chown \/ ct_fail.chmod)
       /\ ct_calls[3].arg = IF ct_fail.chown
                            THEN BitClear(ct_in.mode, S_ISUID + S_ISGID)
                            ELSE ct_in.mode
       /\ ~ct_fail.chmod => ct_file.mode = ct_calls[3].arg

\* utime and chown have failed on a setuid file, and chmod was still called
C10_Witness ==
  /\ ct_pc = "ret"
  /\ ct_fail.utime /\ ct_fail.chown /\ ~ct_fail.chmod
  /\ BitAnd(ct_in.mode, S_ISUID) /= 0
  /\ Len(ct_calls) = 3

=============================================================================
